---------------------------- MODULE Spec2Model ----------------------------
(***************************************************************************)
(* A model of Adafruit_MS8607.cpp: the pressure/temperature half of the    *)
(* MS8607 driver.  It covers the PROM calibration load and its CRC-4       *)
(* check (_init, _psensor_crc_check), the two-phase conversion and the     *)
(* second-order compensation (_read), and the event interface (getEvent,   *)
(* fillTempEvent, fillPressureEvent).                                      *)
(*                                                                         *)
(* Three specifications share the module:                                  *)
(*   Spec      the driver object: begin and getEvent, with the bus as the  *)
(*             environment;                                                *)
(*   SpecCrc   _psensor_crc_check as a pure function of a PROM image;      *)
(*   SpecComp  the compensation arithmetic of _read as a pure function of  *)
(*             the raw samples and the calibration constants.              *)
(***************************************************************************)
EXTENDS Integers, Sequences, FiniteSets, TLC

(***************************************************************************)
(* Wide integers.  The compensation works on int64_t values, which exceed  *)
(* the range of the checker's integers, so a value is held in two's        *)
(* complement as WideLimbs limbs of LimbBits bits, least significant       *)
(* first: 104 bits.  No expression of _read exceeds that: its operands are *)
(* values stored in variables of at most 64 bits, and a product has one    *)
(* factor of at most 32 bits or is a square of a 32-bit value times a      *)
(* constant below 2^6.  So the arithmetic below is exact, and the widths   *)
(* of the C++ variables are applied by Cast alone.  The operations are     *)
(* functions, so that an operand is evaluated once, when the function is   *)
(* applied.                                                                *)
(***************************************************************************)
LimbBits  == 13
WideLimbs == 8
LimbBase  == 2 ^ LimbBits
Limbs     == Seq(Int)

\* Carry propagation: the limbs of x + c, each brought into 0 .. LimbBase-1;
\* the carry out of the last limb is dropped.
Norm[x \in Limbs, c \in Int] ==
    IF x = <<>> THEN <<>>
    ELSE <<(Head(x) + c) % LimbBase>>
         \o Norm[Tail(x), (Head(x) + c) \div LimbBase]

\* The limb j of x, sign-extended beyond the last one.
LimbAt(x, j) ==
    IF j <= WideLimbs THEN x[j]
    ELSE IF x[WideLimbs] >= LimbBase \div 2 THEN LimbBase - 1 ELSE 0

IsNegative(x) == x[WideLimbs] >= LimbBase \div 2

\* A value of the checker's integers (below 2^31 in magnitude).
FromInt[n \in Int] ==
    Norm[[i \in 1..WideLimbs |->
            IF i = 1 THEN n % LimbBase
            ELSE IF i = 2 THEN (n \div LimbBase) % LimbBase
            ELSE IF i = 3 THEN (n \div (LimbBase * LimbBase)) % LimbBase
            ELSE IF n < 0 THEN LimbBase - 1 ELSE 0], 0]
Zero == FromInt[0]

Add[x \in Limbs, y \in Limbs] ==
    Norm[[i \in 1..WideLimbs |-> x[i] + y[i]], 0]
Sub[x \in Limbs, y \in Limbs] ==
    Norm[[i \in 1..WideLimbs |-> x[i] - y[i]], 0]

\* x[1]*y[k] + x[2]*y[k-1] + ... + x[i]*y[k+1-i]
Column[x \in Limbs, y \in Limbs, k \in Nat, i \in Nat] ==
    IF i = 0 THEN 0 ELSE x[i] * y[k + 1 - i] + Column[x, y, k, i - 1]
Mul[x \in Limbs, y \in Limbs] ==
    Norm[[k \in 1..WideLimbs |-> Column[x, y, k, k]], 0]

Less[x \in Limbs, y \in Limbs] == IsNegative(Sub[x, y])

\* x >> n on a signed operand: the arithmetic shift, floor(x / 2^n).
Shr[x \in Limbs, n \in Nat] ==
    Norm[[i \in 1..WideLimbs |->
            (LimbAt(x, i + (n \div LimbBits)) \div (2 ^ (n % LimbBits)))
            + (LimbAt(x, i + (n \div LimbBits) + 1) % (2 ^ (n % LimbBits)))
              * (2 ^ (LimbBits - (n % LimbBits)))], 0]

\* x << n, for n < 31
Shl[x \in Limbs, n \in Nat] == Mul[x, FromInt[2 ^ n]]

\* x / 16 on a signed operand: C++ division truncates toward zero.
Div16[x \in Limbs] ==
    IF IsNegative(x) THEN Sub[Zero, Shr[Sub[Zero, x], 4]] ELSE Shr[x, 4]

\* -2^(w-1) <= x < 2^(w-1): x is representable in a signed w-bit variable.
Fits[x \in Limbs, w \in Nat] ==
    Shr[x, w - 1] \in {FromInt[0], FromInt[-1]}

\* The value a signed w-bit variable holds after x is stored in it: the low
\* w bits of x, the bit w-1 extended as the sign.
Cast[x \in Limbs, w \in Nat] ==
    LET sign == (LimbAt(x, ((w - 1) \div LimbBits) + 1)
                   \div (2 ^ ((w - 1) % LimbBits))) % 2
        fill == sign * (LimbBase - 1)
    IN  Norm[[i \in 1..WideLimbs |->
                IF i * LimbBits <= w THEN x[i]
                ELSE IF (i - 1) * LimbBits >= w THEN fill
                ELSE (x[i] % (2 ^ (w - (i - 1) * LimbBits)))
                     + sign * (LimbBase - 2 ^ (w - (i - 1) * LimbBits))], 0]

(***************************************************************************)
(* The compensation arithmetic of _read (lines 238-273).  raw_temp and     *)
(* raw_pressure are the 24-bit counts assembled from the ADC bytes, c the  *)
(* calibration members set by _init.  The locals of _read are a record v;  *)
(* every assignment stores through Cast into the width of the variable     *)
(* assigned, and is entered in a log with its source line and the value of *)
(* the expression before the store, so that "no overflow" is the statement *)
(* that each logged value fits its width.  A product that the width of its *)
(* operands does not keep below 2^63 is first held in a 64-bit temporary   *)
(* (tmp), as the compiler does, and logged in the same way.                *)
(***************************************************************************)
\* An integer constant or a narrower operand widened to int64_t.
I64[n \in Int] == FromInt[n]

\* lines 201-202, and the 64-bit temporary
Width == [dT |-> 32, TEMP |-> 32, OFF |-> 64, SENS |-> 64, P |-> 64,
          T2 |-> 64, OFF2 |-> 64, SENS2 |-> 64, tmp |-> 64]
LocalNames == DOMAIN Width
Locals ==
    [ v   : [LocalNames -> Limbs],
      log : Seq([line : Nat, var : STRING, width : Nat, value : Limbs]) ]

\* On entry the locals are uninitialised; none is read before it is assigned,
\* so the value chosen for them here is never used.
Entry == [ v |-> [n \in LocalNames |-> Zero], log |-> <<>> ]

\* var = value;
Assign[l \in Locals, line \in Nat, var \in LocalNames, value \in Limbs] ==
    [ v   |-> [l.v EXCEPT ![var] = Cast[value, Width[var]]],
      log |-> Append(l.log, [line |-> line, var |-> var,
                             width |-> Width[var], value |-> value]) ]

\* the value of the sub-expression named what, held in the temporary
Hold[l \in Locals, line \in Nat, what \in STRING, value \in Limbs] ==
    [ v   |-> [l.v EXCEPT !.tmp = Cast[value, Width.tmp]],
      log |-> Append(l.log, [line |-> line, var |-> what,
                             width |-> Width.tmp, value |-> value]) ]

\* A variant that is not the program's: the reference shifted by 16.
DeltaTShifted16(raw_temp, ref_temp) ==
    Sub[I64[raw_temp], Shl[I64[ref_temp], 16]]

\* (int32_t)raw_temp - ((int32_t)ref_temp << 8)
DeltaT(raw_temp, ref_temp) == Sub[I64[raw_temp], Shl[I64[ref_temp], 8]]

\* 2000 + ((int64_t)dT * (int64_t)temp_temp_coeff >> 23)
FirstOrderTemp(dT, temp_temp_coeff) ==
    Add[I64[2000], Shr[Mul[dT, I64[temp_temp_coeff]], 23]]

\* A variant that is not the program's: if (TEMP <= 2000)
AtOrBelowTwentyDegrees(TEMP) == ~Less[I64[2000], TEMP]

\* if (TEMP < 2000)
BelowTwentyDegrees(TEMP) == Less[TEMP, I64[2000]]

\* if (TEMP < -1500)
BelowMinusFifteenDegrees(TEMP) == Less[TEMP, I64[-1500]]

\* k * ((int64_t)dT * (int64_t)dT), k = 3 or 5
ScaledSquare(k, dT) == Mul[I64[k], Mul[dT, dT]]

\* k * ((int64_t)TEMP - 2000) * ((int64_t)TEMP - 2000), k = 61 or 29
LowSquare(k, TEMP) ==
    Mul[Mul[I64[k], Sub[TEMP, I64[2000]]], Sub[TEMP, I64[2000]]]

\* k * ((int64_t)TEMP + 1500) * ((int64_t)TEMP + 1500), k = 17 or 9
VeryLowSquare(k, TEMP) ==
    Mul[Mul[I64[k], Add[TEMP, I64[1500]]], Add[TEMP, I64[1500]]]

\* ((int64_t)(press_offset) << 17) + (((int64_t)press_offset_temp_coeff * dT) >> 6)
FirstOrderOFF(press_offset, press_offset_temp_coeff, dT) ==
    Add[Shl[I64[press_offset], 17],
        Shr[Mul[I64[press_offset_temp_coeff], dT], 6]]

\* ((int64_t)press_sens << 16) + (((int64_t)press_sens_temp_coeff * dT) >> 7)
FirstOrderSENS(press_sens, press_sens_temp_coeff, dT) ==
    Add[Shl[I64[press_sens], 16],
        Shr[Mul[I64[press_sens_temp_coeff], dT], 7]]

\* var = tmp >> n;   var = tmp / 16;   var += tmp;   var -= other;
ShiftInto[l \in Locals, line \in Nat, var \in LocalNames, n \in Nat] ==
    Assign[l, line, var, Shr[l.v.tmp, n]]
DivideInto[l \in Locals, line \in Nat, var \in LocalNames] ==
    Assign[l, line, var, Div16[l.v.tmp]]
AddInto[l \in Locals, line \in Nat, var \in LocalNames] ==
    Assign[l, line, var, Add[l.v[var], l.v.tmp]]
SubtractFrom[l \in Locals, line \in Nat, var \in LocalNames, other \in LocalNames] ==
    Assign[l, line, var, Sub[l.v[var], l.v[other]]]

\* line 238
SetDT[l \in Locals, raw_temp \in Nat, ref_temp \in Nat] ==
    Assign[l, 238, "dT", DeltaT(raw_temp, ref_temp)]

\* line 241
SetTEMP[l \in Locals, temp_temp_coeff \in Nat] ==
    Assign[l, 241, "TEMP", FirstOrderTemp(l.v.dT, temp_temp_coeff)]

\* line 245: T2 = (3 * ((int64_t)dT * (int64_t)dT)) >> 33;
SetT2Low[l \in Locals] ==
    ShiftInto[Hold[l, 245, "3 * (dT * dT)", ScaledSquare(3, l.v.dT)],
              245, "T2", 33]

\* line 246: OFF2 = 61 * ((int64_t)TEMP - 2000) * ((int64_t)TEMP - 2000) / 16;
SetOFF2Low[l \in Locals] ==
    DivideInto[Hold[l, 246, "61 * (TEMP - 2000) * (TEMP - 2000)",
                    LowSquare(61, l.v.TEMP)], 246, "OFF2"]

\* line 247: SENS2 = 29 * ((int64_t)TEMP - 2000) * ((int64_t)TEMP - 2000) / 16;
SetSENS2Low[l \in Locals] ==
    DivideInto[Hold[l, 247, "29 * (TEMP - 2000) * (TEMP - 2000)",
                    LowSquare(29, l.v.TEMP)], 247, "SENS2"]

\* line 250: OFF2 += 17 * ((int64_t)TEMP + 1500) * ((int64_t)TEMP + 1500);
AddOFF2VeryLow[l \in Locals] ==
    AddInto[Hold[l, 250, "17 * (TEMP + 1500) * (TEMP + 1500)",
                 VeryLowSquare(17, l.v.TEMP)], 250, "OFF2"]

\* line 251: SENS2 += 9 * ((int64_t)TEMP + 1500) * ((int64_t)TEMP + 1500);
AddSENS2VeryLow[l \in Locals] ==
    AddInto[Hold[l, 251, "9 * (TEMP + 1500) * (TEMP + 1500)",
                 VeryLowSquare(9, l.v.TEMP)], 251, "SENS2"]

\* lines 249-252
VeryLowTemperature[l \in Locals] ==
    IF BelowMinusFifteenDegrees(l.v.TEMP)
    THEN AddSENS2VeryLow[AddOFF2VeryLow[l]]
    ELSE l

\* lines 254-256: T2 = (5 * ((int64_t)dT * (int64_t)dT)) >> 38; OFF2 = 0;
\* SENS2 = 0;
SetT2High[l \in Locals] ==
    ShiftInto[Hold[l, 254, "5 * (dT * dT)", ScaledSquare(5, l.v.dT)],
              254, "T2", 38]
NotBelow[l \in Locals] ==
    Assign[Assign[SetT2High[l], 255, "OFF2", Zero], 256, "SENS2", Zero]

\* lines 244-257
SecondOrder[l \in Locals] ==
    IF BelowTwentyDegrees(l.v.TEMP)
    THEN VeryLowTemperature[SetSENS2Low[SetOFF2Low[SetT2Low[l]]]]
    ELSE NotBelow[l]

\* lines 260-262
SetOFF[l \in Locals, press_offset \in Nat, press_offset_temp_coeff \in Nat] ==
    SubtractFrom[
        Assign[l, 260, "OFF",
               FirstOrderOFF(press_offset, press_offset_temp_coeff, l.v.dT)],
        262, "OFF", "OFF2"]

\* lines 265-267
SetSENS[l \in Locals, press_sens \in Nat, press_sens_temp_coeff \in Nat] ==
    SubtractFrom[
        Assign[l, 265, "SENS",
               FirstOrderSENS(press_sens, press_sens_temp_coeff, l.v.dT)],
        267, "SENS", "SENS2"]

\* line 270: P = (((raw_pressure * SENS) >> 21) - OFF) >> 15;
HoldProduct[l \in Locals, raw_pressure \in Nat] ==
    Hold[l, 270, "raw_pressure * SENS", Mul[I64[raw_pressure], l.v.SENS]]
HoldDifference[l \in Locals] ==
    Hold[l, 270, "((raw_pressure * SENS) >> 21) - OFF",
         Sub[Shr[l.v.tmp, 21], l.v.OFF]]
SetP[l \in Locals, raw_pressure \in Nat] ==
    ShiftInto[HoldDifference[HoldProduct[l, raw_pressure]], 270, "P", 15]

\* lines 272-273.  _temperature and _pressure are held as the exact count of
\* hundredths (the dividend of the division by 100); the conversions to
\* float and the rounding of the quotient are not modelled.
Publish[l \in Locals] ==
    [ v |-> l.v, log |-> l.log,
      temperature |-> Sub[l.v.TEMP, l.v.T2],
      pressure    |-> l.v.P ]

\* lines 238-273
Compensate(raw_temp, raw_pressure, c) ==
    Publish[
      SetP[
        SetSENS[
          SetOFF[
            SecondOrder[
              SetTEMP[SetDT[Entry, raw_temp, c.ref_temp], c.temp_temp_coeff]],
            c.press_offset, c.press_offset_temp_coeff],
          c.press_sens, c.press_sens_temp_coeff],
        raw_pressure]]

(***************************************************************************)
(* _psensor_crc_check (lines 280-308).  n_prom is the uint16_t buffer of   *)
(* _init: n_prom[1..7] here are buffer[0..6] there, and the check itself   *)
(* writes the eighth word.  All values are uint16_t.                       *)
(***************************************************************************)
\* a ^ b for b below 2^n
XorBits[a \in Nat, b \in Nat, n \in Nat] ==
    IF n = 0 THEN a
    ELSE (((a % 2) + (b % 2)) % 2) + 2 * XorBits[a \div 2, b \div 2, n - 1]

\* n_rem ^= byte, on uint16_t: the byte meets the low byte of n_rem
XorByte(n_rem, byte) == XorBits[n_rem, byte, 8]

\* the polynomial of line 300, 0x3000
CrcPolynomial == 12288

\* x ^ 0x3000 on uint16_t: bits 12 and 13 of x inverted
XorPolynomial(x) ==
    x + CrcPolynomial - 2 * (((x \div 4096) % 4) * 4096)

\* A variant that is not the program's: the shift without the polynomial.
PlainShift(n_rem) == (n_rem * 2) % 65536

\* if (n_rem & 0x8000) n_rem = (n_rem << 1) ^ 0x3000; else n_rem <<= 1;
CrcShift(n_rem) ==
    IF (n_rem \div 32768) % 2 = 1
    THEN XorPolynomial((n_rem * 2) % 65536)
    ELSE (n_rem * 2) % 65536

\* for (n_bit = 8; n_bit > 0; n_bit--): n_rem after the n_bit remaining
\* passes of the inner loop
CrcShifts[n_rem \in Nat, n_bit \in Nat] ==
    IF n_bit = 0 THEN n_rem ELSE CrcShifts[CrcShift(n_rem), n_bit - 1]

\* A variant that is not the program's: the two bytes of a word exchanged.
SwappedOperand(n_prom, cnt) ==
    IF cnt % 2 = 1 THEN n_prom[(cnt \div 2) + 1] \div 256
    ELSE n_prom[(cnt \div 2) + 1] % 256

\* the operand of n_rem ^= ... in pass cnt of the outer loop: the low byte of
\* word cnt >> 1 for an odd cnt, its high byte for an even one
CrcOperand(n_prom, cnt) ==
    IF cnt % 2 = 1 THEN n_prom[(cnt \div 2) + 1] % 256
    ELSE n_prom[(cnt \div 2) + 1] \div 256

\* for (cnt = 0; cnt < (7 + 1) * 2; cnt++): n_rem after passes 0 .. cnt-1
CrcLoop[n_prom \in Seq(Nat), cnt \in Nat] ==
    IF cnt = 0 THEN 0
    ELSE CrcShifts[XorByte(CrcLoop[n_prom, cnt - 1],
                           CrcOperand(n_prom, cnt - 1)), 8]

\* n_prom[7] = 0; n_prom[0] = (0x0FFF & (n_prom[0]));
CrcPrepare(n_prom) ==
    [i \in 1..8 |-> IF i = 8 THEN 0
                    ELSE IF i = 1 THEN n_prom[1] % 4096
                    ELSE n_prom[i]]

_psensor_crc_check(n_prom, crc) ==
    LET n_rem == CrcLoop[CrcPrepare(n_prom), (7 + 1) * 2]
    IN  (n_rem \div 4096) = crc

\* the crc argument _init passes: (buffer[0] & 0xF000) >> 12
StoredCrc(buffer) == buffer[1] \div 4096

(***************************************************************************)
(* The driver object and its environment.                                  *)
(***************************************************************************)
VARIABLES
    prom,           \* the PROM words of the attached device (environment)
    i2c_dev,        \* "NULL" until begin allocates the bus interface
    cal,            \* press_sens .. temp_temp_coeff and psensor_resolution_osr
    _temperature,   \* the cached temperature, in hundredths of a degree
    _pressure,      \* the cached pressure, in hundredths of a millibar
    initObs,        \* observation of the latest begin()
    cycleObs,       \* observation of the read cycle of the latest call, when
                    \* that call was a getEvent()
    lastGood,       \* the reading computed by the latest cycle whose four bus
                    \* transactions all succeeded, as a sequence of length <= 1
    crcRun,         \* SpecCrc: the PROM image under check and the verdicts
    compRun         \* SpecComp: the inputs and the result of one compensation

vars == <<prom, i2c_dev, cal, _temperature, _pressure, initObs, cycleObs,
          lastGood, crcRun, compRun>>
devVars == <<prom, i2c_dev, cal, _temperature, _pressure, initObs, cycleObs,
             lastGood>>

\* At most this many of the seven PROM reads of one _init fail.
MaxBusFailures == 1

\* A PROM image whose CRC nibble matches (the coefficients are those of the
\* sensor's reference example), and the same image with one bit of word 5
\* changed.
GoodProm == <<23132, 46372, 43981, 29059, 27842, 31553, 28165>>
BadProm  == <<23132, 46372, 43981, 29059, 27842, 31557, 28165>>
PromImages == {GoodProm, BadProm}

\* What tmp_buffer may hold after a write_then_read that failed: _init never
\* initialises it and the transport's contract for a failed transfer is not
\* part of this file, so the word assembled from it is indeterminate.
IndeterminateWord == <<29072, 65535>>

\* The outcome of the seven PROM reads of one _init: the reads that failed,
\* each with the index in IndeterminateWord of the word it left.
BusOutcomes ==
    UNION { [F -> 1..Len(IndeterminateWord)] :
            F \in { G \in SUBSET (1..7) : Cardinality(G) <= MaxBusFailures } }

\* lines 84-90: buffer[i] = tmp_buffer[0] << 8 | tmp_buffer[1], whatever the
\* read returned
BufferOf(p, b) ==
    [i \in 1..7 |-> IF i \in DOMAIN b THEN IndeterminateWord[b[i]] ELSE p[i]]

\* lines 95-101
CalOf(buffer) ==
    [ press_sens              |-> buffer[2],
      press_offset            |-> buffer[3],
      press_sens_temp_coeff   |-> buffer[4],
      press_offset_temp_coeff |-> buffer[5],
      ref_temp                |-> buffer[6],
      temp_temp_coeff         |-> buffer[7],
      psensor_resolution_osr  |-> "OSR_8192" ]

\* The members the constructor (line 27) leaves uninitialised: zero for an
\* object in static storage, anything otherwise.
UninitialisedObjects ==
    { [ cal |-> [ press_sens |-> 0, press_offset |-> 0,
                  press_sens_temp_coeff |-> 0, press_offset_temp_coeff |-> 0,
                  ref_temp |-> 0, temp_temp_coeff |-> 0,
                  psensor_resolution_osr |-> "indeterminate" ],
        _temperature |-> FromInt[0], _pressure |-> FromInt[0] ],
      [ cal |-> [ press_sens |-> 65535, press_offset |-> 21845,
                  press_sens_temp_coeff |-> 65535,
                  press_offset_temp_coeff |-> 21845,
                  ref_temp |-> 65535, temp_temp_coeff |-> 21845,
                  psensor_resolution_osr |-> "indeterminate" ],
        _temperature |-> FromInt[-27315], _pressure |-> FromInt[65535] ] }

\* The 24-bit counts of the two conversions of the attached device.
DeviceCounts == [temp |-> 8077636, pressure |-> 6465444]

\* What raw_temp or raw_pressure may be after its two transactions: the count
\* of the device when both succeeded; otherwise the three-byte buffer of _read,
\* which is not initialised, was not filled by a conversion of this cycle,
\* and the value assembled from it is indeterminate.
RawValues(count, ok) == IF ok THEN {count} ELSE {count, 0}

NoInit  == [ran |-> FALSE, devOk |-> FALSE, failedReads |-> 0,
            crcAttempted |-> FALSE, ret |-> FALSE]
NoCycle == [ran |-> FALSE, failed |-> FALSE, want |-> <<FALSE, FALSE>>,
            log |-> <<>>, readRet |-> FALSE, ret |-> FALSE,
            temp |-> <<>>, pressure |-> <<>>]
IdleCrc  == [n_prom |-> <<>>, checked |-> FALSE, accepted |-> FALSE,
             flipped |-> <<>>]
IdleComp == [raw_temp |-> 0, raw_pressure |-> 0, c |-> <<>>, out |-> <<>>]

\* The state after the constructor, with a device attached.
Init ==
    /\ prom \in PromImages
    /\ i2c_dev = "NULL"
    /\ \E o \in UninitialisedObjects :
          /\ cal = o.cal
          /\ _temperature = o._temperature
          /\ _pressure = o._pressure
    /\ initObs = NoInit
    /\ cycleObs = NoCycle
    /\ lastGood = <<>>
    /\ crcRun = IdleCrc
    /\ compRun = IdleComp

(***************************************************************************)
(* begin (lines 45-61) with _init (lines 79-104).  devOk is the result of  *)
(* i2c_dev->begin(), b the outcome of the seven PROM reads, crcOk the      *)
(* result of the CRC check that _init makes on the buffer it assembled.    *)
(***************************************************************************)
_init(b, buffer, crcOk) ==
    /\ cal' = IF crcOk THEN CalOf(buffer) ELSE cal
    /\ initObs' = [ran |-> TRUE, devOk |-> TRUE,
                   failedReads |-> Cardinality(DOMAIN b),
                   crcAttempted |-> TRUE,
                   ret |-> crcOk]

begin ==
    /\ i2c_dev' = "open"
    /\ \/ /\ initObs' = [ran |-> TRUE, devOk |-> FALSE, failedReads |-> 0,
                         crcAttempted |-> FALSE, ret |-> FALSE]
          /\ cal' = cal
       \/ \E b \in BusOutcomes :
            \E crcOk \in { _psensor_crc_check(BufferOf(prom, b),
                                              StoredCrc(BufferOf(prom, b))) } :
               _init(b, BufferOf(prom, b), crcOk)
    /\ cycleObs' = NoCycle
    /\ UNCHANGED <<prom, _temperature, _pressure, lastGood, crcRun, compRun>>

(***************************************************************************)
(* getEvent (lines 117-130) with _read (lines 199-278) and the two fill    *)
(* helpers (lines 310-334).  busOk[1..4] are the results of the four bus   *)
(* transactions of the cycle, raw_temp and raw_pressure what the two       *)
(* three-byte read buffers hold afterwards, status0 the indeterminate      *)
(* initial value of the local status, want the (pressure, temp) pointers   *)
(* of the caller that are not NULL.                                        *)
(***************************************************************************)
StartTemperature(osr) ==
    [op |-> "write", cmd |-> "PSENSOR_START_TEMPERATURE_ADC_CONVERSION",
     osr |-> osr]
StartPressure(osr) ==
    [op |-> "write", cmd |-> "PSENSOR_START_PRESSURE_ADC_CONVERSION",
     osr |-> osr]
ReadAdc ==
    [op |-> "write_then_read", cmd |-> "PSENSOR_READ_ADC", osr |-> "none"]

\* A variant that is not the program's: the pressure conversion first.
PressureFirst(osr) ==
    <<StartPressure(osr), ReadAdc, StartTemperature(osr), ReadAdc>>

\* The bus transactions of _read in the order of lines 213, 221, 229, 233.
BusCommands(osr) ==
    <<StartTemperature(osr), ReadAdc, StartPressure(osr), ReadAdc>>

\* uint8_t status; status |= <result> four times; return status;
IndeterminateStatus == {0, 255}
ReadStatus(status0, busOk) == status0 # 0 \/ (\E i \in 1..4 : busOk[i])

\* temp->temperature = _temperature  /  pressure->pressure = _pressure
fillTempEvent(t) ==
    <<[type |-> "SENSOR_TYPE_AMBIENT_TEMPERATURE", value |-> t]>>
fillPressureEvent(p) ==
    <<[type |-> "SENSOR_TYPE_PRESSURE", value |-> p]>>

\* r is Compensate(raw_temp, raw_pressure, cal), the outcome of lines 238-273
\* on the two raw values of the cycle.
_read(busOk, r) ==
    /\ _temperature' = r.temperature
    /\ _pressure' = r.pressure
    /\ lastGood' = IF \A i \in 1..4 : busOk[i]
                   THEN <<[temperature |-> r.temperature,
                           pressure |-> r.pressure]>>
                   ELSE lastGood

\* The (pressure, temp) pointers the callers pass: the all-channel call of
\* the sketch and the two single-channel views (lines 180 and 190).
EventRequests == {<<TRUE, TRUE>>, <<FALSE, TRUE>>, <<TRUE, FALSE>>}

\* What the two raw values may be, whatever the transactions do, and the
\* results of the four transactions that may leave them.
RawTemps     == RawValues(DeviceCounts.temp, FALSE)
RawPressures == RawValues(DeviceCounts.pressure, FALSE)
BusResults(raw_temp, raw_pressure) ==
    { busOk \in [1..4 -> BOOLEAN] :
        /\ raw_temp \in RawValues(DeviceCounts.temp, busOk[1] /\ busOk[2])
        /\ raw_pressure \in RawValues(DeviceCounts.pressure,
                                      busOk[3] /\ busOk[4]) }

getEvent ==
    /\ i2c_dev # "NULL"
    /\ \E raw_temp \in RawTemps, raw_pressure \in RawPressures :
         \E r \in { Compensate(raw_temp, raw_pressure, cal) } :
           \E busOk \in BusResults(raw_temp, raw_pressure),
              status0 \in IndeterminateStatus, want \in EventRequests :
               /\ _read(busOk, r)
               /\ cycleObs' =
                    [ran      |-> TRUE,
                     failed   |-> \E i \in 1..4 : ~busOk[i],
                     want     |-> want,
                     log      |-> BusCommands(cal.psensor_resolution_osr),
                     readRet  |-> ReadStatus(status0, busOk),
                     ret      |-> TRUE,
                     temp     |-> IF want[2] THEN fillTempEvent(_temperature')
                                  ELSE <<>>,
                     pressure |-> IF want[1] THEN fillPressureEvent(_pressure')
                                  ELSE <<>>]
    /\ UNCHANGED <<prom, i2c_dev, cal, initObs, crcRun, compRun>>

Next ==
    \/ begin
    \/ getEvent

Spec == Init /\ [][Next]_vars

(***************************************************************************)
(* _psensor_crc_check on its own (lines 280-308): a second specification,  *)
(* which draws a buffer of seven words, checks it as _init does (lines     *)
(* 92-94), and checks again after one bit of an accepted buffer changed.   *)
(***************************************************************************)
\* This many of the words 1..6 vary; the others are those of GoodProm.
CrcVaryWords == 2

\* The values a varying word takes, and the low twelve bits of word 0.
CrcWordValues == {0, 21845, 65535}
CrcLowBits    == {1500, 4095}

CrcVectors ==
    { [i \in 1..7 |->
         IF i = 1 THEN w0
         ELSE IF i - 1 <= CrcVaryWords THEN d[i - 1]
         ELSE GoodProm[i]] :
      w0 \in { nib * 4096 + low : nib \in 0..15, low \in CrcLowBits },
      d \in [1..CrcVaryWords -> CrcWordValues \cup {46372}] }

\* bit k (0..15) of word i inverted
FlipBit(n_prom, i, k) ==
    [n_prom EXCEPT ![i] = IF (@ \div (2 ^ k)) % 2 = 1 THEN @ - 2 ^ k
                          ELSE @ + 2 ^ k]

InitCrc ==
    /\ prom = GoodProm
    /\ i2c_dev = "NULL"
    /\ \E o \in UninitialisedObjects :
          /\ o.cal.ref_temp = 0
          /\ cal = o.cal
          /\ _temperature = o._temperature
          /\ _pressure = o._pressure
    /\ initObs = NoInit
    /\ cycleObs = NoCycle
    /\ lastGood = <<>>
    /\ \E n_prom \in CrcVectors :
          crcRun = [n_prom |-> n_prom, checked |-> FALSE, accepted |-> FALSE,
                    flipped |-> <<>>]
    /\ compRun = IdleComp

CrcCheck ==
    /\ ~crcRun.checked
    /\ crcRun' = [crcRun EXCEPT
                    !.checked = TRUE,
                    !.accepted = _psensor_crc_check(crcRun.n_prom,
                                                    StoredCrc(crcRun.n_prom))]
    /\ UNCHANGED <<devVars, compRun>>

CrcFlip ==
    /\ crcRun.checked
    /\ crcRun.accepted
    /\ crcRun.flipped = <<>>
    /\ \E i \in 1..7, k \in 0..15 :
         \E n_prom \in { FlipBit(crcRun.n_prom, i, k) } :
           crcRun' = [crcRun EXCEPT
                        !.flipped =
                           <<[word |-> i, bit |-> k, n_prom |-> n_prom,
                              accepted |->
                                 _psensor_crc_check(n_prom,
                                                    StoredCrc(n_prom))]>>]
    /\ UNCHANGED <<devVars, compRun>>

NextCrc ==
    \/ CrcCheck
    \/ CrcFlip

SpecCrc == InitCrc /\ [][NextCrc]_vars

(***************************************************************************)
(* The compensation on its own (lines 238-273): a third specification,     *)
(* which draws the two raw values and the six calibration words and        *)
(* computes as _read does.                                                 *)
(***************************************************************************)
\* The extremes and the middle of a calibration word and of a 24-bit count.
CornerWords  == {0, 32768, 65535}
CornerCounts == {0, 8388608, 16777215}

\* The calibration of GoodProm, with counts that put TEMP at 1999, 2000 and
\* 2001, and the extremes of every input.
CompInputs ==
    { [raw_temp |-> rt, raw_pressure |-> DeviceCounts.pressure,
       c |-> CalOf(GoodProm)] :
      rt \in {8077567, 8077568, DeviceCounts.temp, 8077866} }
    \cup
    { [raw_temp |-> rt, raw_pressure |-> rp,
       c |-> [ press_sens |-> w[1], press_offset |-> w[2],
               press_sens_temp_coeff |-> w[3],
               press_offset_temp_coeff |-> w[4],
               ref_temp |-> w[5], temp_temp_coeff |-> w[6],
               psensor_resolution_osr |-> "OSR_8192" ]] :
      rt \in CornerCounts, rp \in CornerCounts,
      w \in [1..6 -> CornerWords] }

InitComp ==
    /\ prom = GoodProm
    /\ i2c_dev = "NULL"
    /\ \E o \in UninitialisedObjects :
          /\ o.cal.ref_temp = 0
          /\ cal = o.cal
          /\ _temperature = o._temperature
          /\ _pressure = o._pressure
    /\ initObs = NoInit
    /\ cycleObs = NoCycle
    /\ lastGood = <<>>
    /\ crcRun = IdleCrc
    /\ \E in \in CompInputs :
          compRun = [raw_temp |-> in.raw_temp, raw_pressure |-> in.raw_pressure,
                     c |-> in.c, out |-> <<>>]

Compute ==
    /\ compRun.out = <<>>
    /\ compRun' = [compRun EXCEPT
                     !.out = <<Compensate(compRun.raw_temp,
                                          compRun.raw_pressure, compRun.c)>>]
    /\ UNCHANGED <<devVars, crcRun>>

NextComp == Compute

SpecComp == InitComp /\ [][NextComp]_vars

(***************************************************************************)
(* Properties of the driver, checked under Spec.                           *)
(***************************************************************************)
\* The events the latest getEvent filled in.
Published == cycleObs.temp \o cycleObs.pressure

\* C1: after a read cycle in which a bus transaction failed, and before
\* which some cycle had succeeded, the cached temperature and pressure are
\* those computed by the most recent successful cycle.
C1_FailedCycleKeepsCache ==
    (cycleObs.ran /\ cycleObs.failed /\ lastGood # <<>>)
        => /\ _temperature = lastGood[1].temperature
           /\ _pressure = lastGood[1].pressure

\* C2: a read cycle computes and publishes a reading only when the most
\* recent begin() validated the calibration with a passing CRC check.
C2_NoReadingUnlessValidated ==
    cycleObs.ran => (initObs.ran /\ initObs.ret)

\* C3: when one of the seven PROM reads of _init failed, the CRC check was
\* not attempted and begin() did not return true.
C3_BusFailureFailsInit ==
    (initObs.ran /\ initObs.failedReads > 0)
        => (~initObs.crcAttempted /\ ~initObs.ret)

\* C4: _read returns true exactly when its four transactions all succeeded,
\* and getEvent returns what _read returned.
C4_ReadReportsOutcome ==
    cycleObs.ran
        => /\ cycleObs.readRet = ~cycleObs.failed
           /\ cycleObs.ret = cycleObs.readRet

\* C5: in the bus commands of every read cycle, the temperature conversion
\* is started before the pressure conversion, with an ADC read between the
\* two, and no pressure start precedes a temperature start.
C5_TemperatureBeforePressure ==
    cycleObs.ran =>
        /\ \E t, r, p \in DOMAIN cycleObs.log :
              /\ t < r /\ r < p
              /\ cycleObs.log[t].cmd = "PSENSOR_START_TEMPERATURE_ADC_CONVERSION"
              /\ cycleObs.log[r].cmd = "PSENSOR_READ_ADC"
              /\ cycleObs.log[p].cmd = "PSENSOR_START_PRESSURE_ADC_CONVERSION"
        /\ \A t, p \in DOMAIN cycleObs.log :
              (/\ cycleObs.log[t].cmd = "PSENSOR_START_TEMPERATURE_ADC_CONVERSION"
               /\ cycleObs.log[p].cmd = "PSENSOR_START_PRESSURE_ADC_CONVERSION")
                 => t < p

\* A read cycle ran, and one of its transactions failed.
C5_Witness == cycleObs.ran /\ cycleObs.failed /\ Len(cycleObs.log) = 4

\* C8: while no read cycle has succeeded, getEvent hands out no temperature
\* or pressure value; once one has, the values it hands out are those of the
\* most recent successful cycle.
C8_UnavailableBeforeSuccess ==
    cycleObs.ran =>
        IF lastGood = <<>>
        THEN Published = <<>>
        ELSE /\ \A i \in DOMAIN cycleObs.temp :
                  cycleObs.temp[i].value = lastGood[1].temperature
             /\ \A i \in DOMAIN cycleObs.pressure :
                  cycleObs.pressure[i].value = lastGood[1].pressure

(***************************************************************************)
(* Properties of the CRC check, checked under SpecCrc.  The algorithm of   *)
(* the statement is written out from its words: the eight words (word 0    *)
(* masked, an eighth word 0) as sixteen bytes, a 16-bit remainder from 0,  *)
(* each byte XORed into one byte of the remainder (lane 256 for the high   *)
(* byte, lane 1 for the low one) and followed by eight shift steps.        *)
(***************************************************************************)
StatedBytes(words) ==
    [j \in 1..16 |->
        IF (j + 1) \div 2 = 8 THEN 0
        ELSE IF j % 2 = 1
             THEN (IF j = 1 THEN words[1] % 4096 ELSE words[(j + 1) \div 2])
                  \div 256
             ELSE words[(j + 1) \div 2] % 256]

StatedXor[a \in Nat, b \in Nat, n \in Nat] ==
    IF n = 0 THEN 0
    ELSE (IF (a % 2) = (b % 2) THEN 0 ELSE 1)
         + 2 * StatedXor[a \div 2, b \div 2, n - 1]

StatedSteps[r \in Nat, n \in Nat] ==
    IF n = 0 THEN r
    ELSE StatedSteps[IF r >= 32768
                     THEN StatedXor[(2 * r) % 65536, 12288, 16]
                     ELSE (2 * r) % 65536, n - 1]

StatedRemainder[bytes \in Seq(Nat), j \in Nat, lane \in Nat] ==
    IF j = 0 THEN 0
    ELSE StatedSteps[StatedXor[StatedRemainder[bytes, j - 1, lane],
                               bytes[j] * lane, 16], 8]

StatedNibble(words, lane) ==
    StatedRemainder[StatedBytes(words), 16, lane] \div 4096

\* The buffers SpecCrc has checked, each with the verdict of the program.
CrcChecked ==
    (IF crcRun.checked
     THEN {[n_prom |-> crcRun.n_prom, accepted |-> crcRun.accepted]}
     ELSE {})
    \cup { [n_prom |-> crcRun.flipped[i].n_prom,
            accepted |-> crcRun.flipped[i].accepted] :
           i \in DOMAIN crcRun.flipped }

\* C6, as stated: the check accepts a buffer exactly when the nibble of the
\* stated algorithm, each byte XORed into the high byte of the remainder,
\* equals the top four bits of word 0.
C6_AcceptsIffHighByteNibble ==
    \A x \in CrcChecked :
        x.accepted <=> (StatedNibble(x.n_prom, 256) = x.n_prom[1] \div 4096)

\* C6, amended: the check accepts a buffer exactly when the nibble of the
\* stated algorithm, each byte XORed into the low byte of the remainder,
\* equals the top four bits of word 0.
C6_AcceptsIffLowByteNibble ==
    \A x \in CrcChecked :
        x.accepted <=> (StatedNibble(x.n_prom, 1) = x.n_prom[1] \div 4096)

\* A buffer the check accepted, whose nibble by the high-byte reading is not
\* the one stored in word 0.
C6_Witness ==
    /\ crcRun.checked
    /\ crcRun.accepted
    /\ StatedNibble(crcRun.n_prom, 256) # crcRun.n_prom[1] \div 4096

\* C7: a buffer that differs in one bit from a buffer the check accepted is
\* rejected.
C7_SingleBitFlipRejected ==
    \A i \in DOMAIN crcRun.flipped : ~crcRun.flipped[i].accepted

\* An accepted buffer was checked again with a bit of the CRC nibble of
\* word 0 inverted.
C7_Witness ==
    /\ crcRun.accepted
    /\ crcRun.flipped # <<>>
    /\ crcRun.flipped[1].word = 1
    /\ crcRun.flipped[1].bit >= 12

(***************************************************************************)
(* Properties of the compensation, checked under SpecComp.                 *)
(***************************************************************************)
\* The source lines of the assignments a compensation made.
LinesOf(o) == { o.log[i].line : i \in DOMAIN o.log }

\* C9: when TEMP is exactly 2000, T2 is (5 * dT * dT) >> 38 and OFF2 and
\* SENS2 are 0, by the assignments of the else branch; and the assignments
\* of the low-temperature branch are made only when TEMP < 2000.
C9_BoundaryTakesNotBelowBranch ==
    \A i \in DOMAIN compRun.out :
        /\ compRun.out[i].v.TEMP = FromInt[2000] =>
              /\ LinesOf(compRun.out[i]) \cap {245, 246, 247, 250, 251} = {}
              /\ {254, 255, 256} \subseteq LinesOf(compRun.out[i])
              /\ compRun.out[i].v.T2 =
                    Shr[Mul[FromInt[5], Mul[compRun.out[i].v.dT,
                                            compRun.out[i].v.dT]], 38]
              /\ compRun.out[i].v.OFF2 = FromInt[0]
              /\ compRun.out[i].v.SENS2 = FromInt[0]
        /\ LinesOf(compRun.out[i]) \cap {245, 246, 247, 250, 251} # {} =>
              Less[compRun.out[i].v.TEMP, FromInt[2000]]

\* A compensation with TEMP exactly 2000 and a dT for which the two
\* formulas of T2 differ.
C9_Witness ==
    /\ compRun.out # <<>>
    /\ compRun.out[1].v.TEMP = FromInt[2000]
    /\ Shr[Mul[FromInt[3], Mul[compRun.out[1].v.dT, compRun.out[1].v.dT]], 33]
         # Shr[Mul[FromInt[5], Mul[compRun.out[1].v.dT,
                                  compRun.out[1].v.dT]], 38]

\* C10: every value the compensation assigns or holds (dT and TEMP in 32
\* bits; T2, OFF2, SENS2, OFF, SENS, raw_pressure * SENS and P in 64 bits)
\* fits the width it is stored in, so what is stored is the exact value.
C10_NoIntermediateOverflows ==
    \A i \in DOMAIN compRun.out :
        /\ \A k \in DOMAIN compRun.out[i].log :
              /\ Fits[compRun.out[i].log[k].value, compRun.out[i].log[k].width]
              /\ Cast[compRun.out[i].log[k].value, compRun.out[i].log[k].width]
                   = compRun.out[i].log[k].value
        /\ {"dT", "TEMP", "T2", "OFF2", "SENS2", "OFF", "SENS", "P",
            "raw_pressure * SENS"}
             \subseteq { compRun.out[i].log[k].var :
                         k \in DOMAIN compRun.out[i].log }
        /\ \A k \in DOMAIN compRun.out[i].log :
              compRun.out[i].log[k].var \in {"dT", "TEMP"}
                 <=> compRun.out[i].log[k].width = 32
        /\ compRun.out[i].pressure
             = compRun.out[i].log[Len(compRun.out[i].log)].value

\* A compensation of the largest raw pressure on the coldest branch.
C10_Witness ==
    /\ compRun.out # <<>>
    /\ compRun.raw_pressure = 16777215
    /\ 250 \in LinesOf(compRun.out[1])

=============================================================================
